---- MODULE Spec2Model ----
(***************************************************************************)
(* State-machine model of node_classification (src/main.py): dataset       *)
(* construction, partition loaders, class-weighted losses, checkpoint      *)
(* naming, the resume-or-train decision, training with early stopping,     *)
(* prediction over random partitions, metric logging and plotting.         *)
(*                                                                         *)
(* Strings are sequences of one-character strings so that the formatting   *)
(* of the checkpoint name is computed character by character.              *)
(***************************************************************************)
EXTENDS Integers, Sequences, FiniteSets, TLC

\* ------------------------------------------------------------------ bounds
\* Largest small hyperparameter value drawn for the checkpoint-name check.
MaxParam == 2
\* Longest raw label vector of the train and validation splits.
MaxLabels == 4
\* Largest graph and largest num_parts drawn for the loader check.
MaxNodes == 4
MaxParts == 5
\* Traversals of one loader.
MaxPasses == 2
\* Largest max_epochs and patience drawn for the training-loop check.
MaxEpochs == 5
MaxPatience == 2
\* Runs of the pipeline on the same disk.
MaxRuns == 3
\* Nodes of the test graph (the smallest count that 64 parts batch in pairs).
TestNodes == 65

\* ------------------------------------------------------ program constants
NUM_CLASSES == 2
NUM_PARTS == 64
EPOCHS == 1000
PATIENCE == 20
DEFAULT_NEIGH == 0
DEFAULT_HID == 2048
DEFAULT_N_CONVS == 16

\* The checkpoint file: missing, truncated, or a snapshot of the parameters
\* (a natural number: how many epochs of updates the parameters have had).
Absent == 0 - 1
Partial == 0 - 2
\* No write in progress.
NoWrite == 0 - 1
\* best_loss before the first epoch (+infinity) and a non-finite loss.
Inf == 0 - 1
NaN == 0 - 2
None == "none"
\* A dataset not built yet, weights not computed yet, no predictions yet.
NoDataset == [file |-> "", num_neighbors |-> 0, augmented |-> FALSE, y |-> << >>]
NoWeights == << >>
NoResult == [tp \in (0..1) \X (0..1) |-> 0]

Range(s) == { s[i] : i \in DOMAIN s }
Min2(a, b) == IF a < b THEN a ELSE b

\* Fractions <<numerator, denominator>> with positive denominators.
FracGT(a, b) == a[1] * b[2] > b[1] * a[2]
FracEq(a, b) == a[1] * b[2] = b[1] * a[2]

\* ------------------------------------------------------- string formatting
Digit(d) == CASE d = 0 -> "0" [] d = 1 -> "1" [] d = 2 -> "2" [] d = 3 -> "3"
              [] d = 4 -> "4" [] d = 5 -> "5" [] d = 6 -> "6" [] d = 7 -> "7"
              [] d = 8 -> "8" [] d = 9 -> "9"

RECURSIVE NatToStr(_)
NatToStr(n) == IF n < 10 THEN <<Digit(n)>>
               ELSE NatToStr(n \div 10) \o <<Digit(n % 10)>>

\* Python's str(int) as used by an f-string replacement field.
IntToStr(n) == IF n < 0 THEN <<"-">> \o NatToStr(0 - n) ELSE NatToStr(n)

\* The name with the "_aug" suffix left out.
ModelNameNoAug(nn, h, nc, aug) ==
    <<"g","c","_","m","o","d","e","l","_","t","e","s","t","_",
      "a","t","t","a","c","k","_">> \o IntToStr(nn)
    \o <<"_","h","i","d","_">> \o IntToStr(h)
    \o <<"_","c","o","n","v","s","_">> \o IntToStr(nc)

\* f'gc_model_test_attack_{n_neigh}_hid_{hid}_convs_{num_convs}{"_aug" if augmentation else ""}'
ModelName(nn, h, nc, aug) ==
    <<"g","c","_","m","o","d","e","l","_","t","e","s","t","_",
      "a","t","t","a","c","k","_">> \o IntToStr(nn)
    \o <<"_","h","i","d","_">> \o IntToStr(h)
    \o <<"_","c","o","n","v","s","_">> \o IntToStr(nc)
    \o (IF aug THEN <<"_","a","u","g">> ELSE << >>)

\* os.path.join(model_path, f'{model_name}.h5'); model_name holds no "/".
ModelTrainedPath(dir, name) ==
    (IF dir = << >> THEN << >>
     ELSE IF dir[Len(dir)] = "/" THEN dir ELSE dir \o <<"/">>)
    \o name \o <<".","h","5">>

\* Directories get_path_of_all may hand back as model_path.
ModelDirs == { <<"m">>, <<"m","/","a","u","g">>, <<"m","/">> }

\* Hyperparameter values: small ones and ones of two and three digits.
WideValues == {10, 11, 101}
NeighValues == (0..MaxParam) \cup WideValues
PositiveValues == (1..MaxParam) \cup WideValues
ParamSet == NeighValues \X BOOLEAN \X PositiveValues \X PositiveValues

VARIABLES
    \* node_classification's arguments and the checkpoint identity
    n_neigh, augmentation, hid, num_convs, model_path, model_name,
    model_trained_path,
    \* the three splits and the two weighted losses
    raw_train, raw_val, aug_default, train_dataset, val_dataset, test_dataset,
    class_weights, class_weights_val,
    \* one RandomNodeLoader being traversed
    ld_n, ld_parts, ld_shuffle, ld_perm, ld_yielded, ld_passes,
    \* train()'s arguments and loop state
    epochs, patience, epoch, best_loss, stall, losses, track, tmp,
    nonfinite, written,
    \* the checkpoint file
    disk, last_written,
    \* one run of node_classification
    run, model, existed, train_calls, loaded, err, result, predict_returned,
    acc_log, resumed_log, cm_plotted, recall_plotted, killed_in_write,
    pc

nameVars == <<n_neigh, augmentation, hid, num_convs, model_path, model_name,
              model_trained_path>>
dataVars == <<raw_train, raw_val, aug_default, train_dataset, val_dataset,
              test_dataset, class_weights, class_weights_val>>
loaderVars == <<ld_n, ld_parts, ld_shuffle, ld_perm, ld_yielded, ld_passes>>
trainVars == <<epochs, patience, epoch, best_loss, stall, losses, track, tmp,
               nonfinite, written>>
diskVars == <<disk, last_written>>
runVars == <<run, model, existed, train_calls, loaded, err, result,
             predict_returned, acc_log, resumed_log, cm_plotted,
             recall_plotted, killed_in_write>>
vars == <<nameVars, dataVars, loaderVars, trainVars, diskVars, runVars, pc>>

\* -------------------------------------------- values of the unused parts
NameIdle ==
    /\ n_neigh = DEFAULT_NEIGH /\ augmentation = TRUE
    /\ hid = DEFAULT_HID /\ num_convs = DEFAULT_N_CONVS
    /\ model_path = <<"m">>
    /\ model_name = << >> /\ model_trained_path = << >>

DataIdle ==
    /\ raw_train = <<0, 0, 1>> /\ raw_val = <<0, 1, 1>>
    /\ aug_default = FALSE
    /\ train_dataset = NoDataset /\ val_dataset = NoDataset /\ test_dataset = NoDataset
    /\ class_weights = NoWeights /\ class_weights_val = NoWeights

LoaderIdle ==
    /\ ld_n = 1 /\ ld_parts = 1 /\ ld_shuffle = FALSE
    /\ ld_perm = << >> /\ ld_yielded = << >> /\ ld_passes = 0

TrainIdle ==
    /\ epochs = 0 /\ patience = 0 /\ epoch = 0 /\ best_loss = Inf
    /\ stall = 0 /\ losses = << >> /\ track = FALSE /\ tmp = NoWrite
    /\ nonfinite = {} /\ written = 0

RunIdle ==
    /\ run = 1 /\ model = 0 /\ existed = None /\ train_calls = 0
    /\ loaded = FALSE /\ err = None /\ result = NoResult
    /\ predict_returned = FALSE
    /\ acc_log = [r \in 1..MaxRuns |-> << >>]
    /\ resumed_log = [r \in 1..MaxRuns |-> None]
    /\ cm_plotted = FALSE /\ recall_plotted = FALSE
    /\ killed_in_write = FALSE

\* ---------------------------------------------------- checkpoint identity
InitName ==
    /\ \E p \in ParamSet :
          /\ n_neigh = p[1] /\ augmentation = p[2]
          /\ hid = p[3] /\ num_convs = p[4]
    /\ model_path \in ModelDirs
    /\ model_name = << >>
    /\ model_trained_path = << >>
    /\ DataIdle /\ LoaderIdle /\ TrainIdle /\ RunIdle
    /\ disk = Absent /\ last_written = Absent
    /\ pc = "name"

ComputeModelName ==
    /\ pc = "name"
    /\ model_name' = ModelName(n_neigh, hid, num_convs, augmentation)
    /\ model_trained_path' =
          ModelTrainedPath(model_path, ModelName(n_neigh, hid, num_convs, augmentation))
    /\ pc' = "check"
    /\ UNCHANGED <<n_neigh, augmentation, hid, num_convs, model_path>>
    /\ UNCHANGED <<dataVars, loaderVars, trainVars, diskVars, runVars>>

NextName == ComputeModelName

SpecName == InitName /\ [][NextName]_vars

\* C3: the checkpoint identity is a function of the four run parameters, and
\* any other parameter tuple, under any model directory, yields another name
\* and another path.
C3_DistinctIdentity ==
    pc = "check" =>
       /\ model_name = ModelName(n_neigh, hid, num_convs, augmentation)
       /\ \A q \in ParamSet :
             q # <<n_neigh, augmentation, hid, num_convs>> =>
                /\ ModelName(q[1], q[3], q[4], q[2]) # model_name
                /\ \A d \in ModelDirs :
                      ModelTrainedPath(d, ModelName(q[1], q[3], q[4], q[2]))
                         # model_trained_path

C3_Witness ==
    /\ pc = "check" /\ augmentation /\ n_neigh = 1 /\ hid = 10 /\ num_convs = 1
    /\ model_name = <<"g","c","_","m","o","d","e","l","_","t","e","s","t","_",
                      "a","t","t","a","c","k","_","1","_","h","i","d","_","1","0",
                      "_","c","o","n","v","s","_","1","_","a","u","g">>

\* ------------------------------------------------------- RandomNodeLoader
\* math.ceil(num_nodes / num_parts)
BatchSize(n, parts) == (n + parts - 1) \div parts

\* The batch count with a trailing short batch dropped.
NumBatchesDropLast(n, bs) == n \div bs

\* Batches a traversal yields: the index range cut in runs of batch_size,
\* the last one possibly shorter.
NumBatches(n, bs) == (n + bs - 1) \div bs

\* The i-th batch of a traversal that visits the nodes in the order perm.
Batch(perm, bs, i) == SubSeq(perm, (i - 1) * bs + 1, Min2(i * bs, Len(perm)))

\* All batches of one traversal of RandomNodeLoader(data, num_parts).
Batches(perm, parts) ==
    [i \in 1..NumBatches(Len(perm), BatchSize(Len(perm), parts)) |->
        Batch(perm, BatchSize(Len(perm), parts), i)]

Identity(n) == [i \in 1..n |-> i]
NodeOrders(n) ==
    { f \in [1..n -> 1..n] : \A i, j \in 1..n : i # j => f[i] # f[j] }

\* The orders a traversal may draw: any with shuffle, the index order without.
Orders(n, shuffle) == IF shuffle THEN NodeOrders(n) ELSE {Identity(n)}

InitLoader ==
    /\ NameIdle /\ DataIdle /\ TrainIdle /\ RunIdle
    /\ disk = Absent /\ last_written = Absent
    /\ ld_n \in 1..MaxNodes
    /\ ld_parts \in 1..MaxParts
    /\ ld_shuffle \in BOOLEAN
    /\ ld_perm = << >> /\ ld_yielded = << >> /\ ld_passes = 0
    /\ pc = "ld_idle"

\* iter(loader): a fresh order is drawn each time iteration begins.
LoaderIter ==
    /\ pc \in {"ld_idle", "ld_done"}
    /\ ld_passes < MaxPasses
    /\ ld_perm' \in Orders(ld_n, ld_shuffle)
    /\ ld_yielded' = << >>
    /\ ld_passes' = ld_passes + 1
    /\ pc' = "ld_iter"
    /\ UNCHANGED <<ld_n, ld_parts, ld_shuffle>>
    /\ UNCHANGED <<nameVars, dataVars, trainVars, diskVars, runVars>>

\* next(iterator): the next node-induced subgraph, or the end of the pass.
LoaderNext ==
    /\ pc = "ld_iter"
    /\ IF Len(ld_yielded) < NumBatches(ld_n, BatchSize(ld_n, ld_parts))
       THEN /\ ld_yielded' = Append(ld_yielded,
                   Batch(ld_perm, BatchSize(ld_n, ld_parts), Len(ld_yielded) + 1))
            /\ pc' = pc
       ELSE /\ ld_yielded' = ld_yielded
            /\ pc' = "ld_done"
    /\ UNCHANGED <<ld_n, ld_parts, ld_shuffle, ld_perm, ld_passes>>
    /\ UNCHANGED <<nameVars, dataVars, trainVars, diskVars, runVars>>

NextLoader == LoaderIter \/ LoaderNext

SpecLoader == InitLoader /\ [][NextLoader]_vars

\* Number of positions of the yielded parts that hold node v.
Occurrences(parts, v) ==
    Cardinality({ <<i, k>> \in (DOMAIN parts) \X (1..Len(ld_perm)) :
                     k \in DOMAIN parts[i] /\ parts[i][k] = v })

\* C4: during a traversal no node is yielded twice and only nodes of the graph
\* are yielded; at the end of the traversal every node was yielded exactly
\* once, for every node count, every num_parts >= 1 and shuffle on or off.
C4_ExactPartition ==
    /\ pc \in {"ld_iter", "ld_done"} =>
          /\ \A v \in 1..ld_n : Occurrences(ld_yielded, v) <= 1
          /\ \A i \in DOMAIN ld_yielded : Range(ld_yielded[i]) \subseteq 1..ld_n
    /\ pc = "ld_done" =>
          \A v \in 1..ld_n : Occurrences(ld_yielded, v) = 1

C4_Witness ==
    /\ pc = "ld_done" /\ ld_shuffle /\ ld_n = 3 /\ ld_parts = 2
    /\ Len(ld_yielded) = 2 /\ ld_perm # Identity(3) /\ ld_passes = 2

\* ------------------------------------------------------ datasets and losses
\* The ten labels of the spec's end-to-end scenario: nine of class 0, one of 1.
ScenarioLabels == [i \in 1..10 |-> IF i = 10 THEN 1 ELSE 0]

LabelVectors ==
    UNION { [1..n -> 0..(NUM_CLASSES - 1)] : n \in 1..MaxLabels }
       \cup {ScenarioLabels}

Count(y, c) == Cardinality({ i \in DOMAIN y : y[i] = c })

\* np.unique(y): the classes present, in increasing order.
Unique(y) ==
    SelectSeq([i \in 1..NUM_CLASSES |-> i - 1], LAMBDA c : c \in Range(y))

\* compute_class_weight('balanced', classes=np.unique(y), y=y):
\* n_samples / (n_classes * count), one entry per class present.
ComputeClassWeight(y) ==
    [i \in 1..Len(Unique(y)) |->
        <<Len(y), Len(Unique(y)) * Count(y, Unique(y)[i])>>]

\* nn.CrossEntropyLoss(weight=w) scales the loss of a class-c target by w[c].
LossWeight(w, c) == w[c + 1]

\* How many nodes the minority class lacks; 0 with one class or a balanced split.
MinorityGap(y) ==
    IF Cardinality(Range(y)) < 2 THEN 0
    ELSE IF Count(y, 0) < Count(y, 1) THEN Count(y, 1) - Count(y, 0)
    ELSE Count(y, 0) - Count(y, 1)

MinorityClass(y) == IF Count(y, 0) < Count(y, 1) THEN 0 ELSE 1

\* Augmentation adds j synthesized minority-class nodes and removes none.
Augment(y, j) == y \o [i \in 1..j |-> MinorityClass(y)]

\* The graph a dataset holds: augmentation is applied to the train split only.
DatasetBuild(args, raw, j) ==
    [file |-> args.file,
     num_neighbors |-> args.num_neighbors,
     augmented |-> args.augmentation /\ ~args.val /\ ~args.test,
     y |-> IF args.augmentation /\ ~args.val /\ ~args.test
           THEN Augment(raw, j) ELSE raw]

\* Synthesized-node counts the builder may reach for a split.
AugmentCounts(args, raw) ==
    IF args.augmentation /\ ~args.val /\ ~args.test /\ MinorityGap(raw) > 0
    THEN 1..MinorityGap(raw) ELSE {0}

\* The constructor arguments of train_dataset.
TrainDatasetArgs(nn, aug, dflt) ==
    [file |-> "UNSW-NB15-train.csv", num_neighbors |-> nn,
     augmentation |-> aug, val |-> FALSE, test |-> FALSE]

\* The validation call written as a copy of the training call.
ValDatasetArgsCopied(nn, aug, dflt) ==
    [file |-> "UNSW-NB15-val.csv", num_neighbors |-> nn,
     augmentation |-> aug, val |-> FALSE, test |-> FALSE]

\* The constructor arguments of val_dataset: augmentation is not passed, so
\* the constructor's own default applies.
ValDatasetArgs(nn, aug, dflt) ==
    [file |-> "UNSW-NB15-val.csv", num_neighbors |-> nn,
     augmentation |-> dflt, val |-> TRUE, test |-> FALSE]

\* The constructor arguments of test_dataset.
TestDatasetArgs(nn, aug, dflt) ==
    [file |-> "UNSW-NB15-test.csv", num_neighbors |-> nn,
     augmentation |-> dflt, val |-> FALSE, test |-> TRUE]

\* ------------------------------------------------------------- test graph
\* One edge, between nodes 1 and 2; node 2 carries the attack feature.
TestEdges == { {1, 2} }
TestX == [v \in 1..TestNodes |-> IF v = 2 THEN 1 ELSE 0]
TestY == [v \in 1..TestNodes |-> IF v \in {1, 2} THEN 1 ELSE 0]

\* Lines 56-77: the three datasets.
CreateDatasets ==
    /\ pc = "datasets"
    /\ \E j \in AugmentCounts(TrainDatasetArgs(n_neigh, augmentation, aug_default),
                              raw_train) :
          train_dataset' =
             DatasetBuild(TrainDatasetArgs(n_neigh, augmentation, aug_default),
                          raw_train, j)
    /\ \E j \in AugmentCounts(ValDatasetArgs(n_neigh, augmentation, aug_default),
                              raw_val) :
          val_dataset' =
             DatasetBuild(ValDatasetArgs(n_neigh, augmentation, aug_default),
                          raw_val, j)
    /\ \E j \in AugmentCounts(TestDatasetArgs(n_neigh, augmentation, aug_default),
                              TestY) :
          test_dataset' =
             DatasetBuild(TestDatasetArgs(n_neigh, augmentation, aug_default),
                          TestY, j)
    /\ pc' = "losses"
    /\ UNCHANGED <<raw_train, raw_val, aug_default, class_weights,
                   class_weights_val>>
    /\ UNCHANGED <<nameVars, loaderVars, trainVars, diskVars, runVars>>

\* The validation weights taken from the training labels.
CriterionValWeightsFromTrain(y, y_val) == ComputeClassWeight(y)

\* Lines 123-126: the weights of criterion.
CriterionWeights(y, y_val) == ComputeClassWeight(y)

\* Lines 127-130: the weights of criterion_val.
CriterionValWeights(y, y_val) == ComputeClassWeight(y_val)

\* Lines 122-132: both losses, built once from the graphs' label vectors.
DefineLosses ==
    /\ pc = "losses"
    /\ class_weights' = CriterionWeights(train_dataset.y, val_dataset.y)
    /\ class_weights_val' = CriterionValWeights(train_dataset.y, val_dataset.y)
    /\ pc' = "name"
    /\ UNCHANGED <<raw_train, raw_val, aug_default, train_dataset, val_dataset,
                   test_dataset>>
    /\ UNCHANGED <<nameVars, loaderVars, trainVars, diskVars, runVars>>

\* ------------------------------------------------------------------ train
\* Validation losses an epoch may report, in hundredths.
LossValues == {90, 95, 96, 97, 100}

\* v < best_loss, with best_loss starting at +infinity.
\* A comparison with NaN is false.
Improves(v, best) == v # NaN /\ (best = Inf \/ v < best)

\* A non-finite loss going unnoticed.
LossDivergedUnchecked(v) == FALSE

\* The non-finite-loss guard of an epoch.
LossDiverged(v) == v = NaN

\* The file as a reader finds it while a write overwrites it in place.
DiskWhileWritingInPlace(old, new) == Partial

\* The file as a reader finds it while a checkpoint write is in progress: the
\* last completed write stays in place until the new one is complete.
DiskWhileWriting(old, new) == old

\* The loop going on after a non-improving epoch, whatever the counter says.
AfterStallNoStop(count, pat) == "train_epoch"

\* Where the loop goes after a non-improving epoch.
AfterStall(count, pat) == IF count >= pat THEN "train_returned" ELSE "train_epoch"

InitTrain ==
    /\ NameIdle /\ DataIdle /\ LoaderIdle /\ RunIdle
    /\ disk = Absent /\ last_written = Absent
    /\ epochs \in 1..MaxEpochs
    /\ patience \in 1..MaxPatience
    /\ epoch = 0 /\ best_loss = Inf /\ stall = 0 /\ losses = << >>
    /\ track = TRUE /\ tmp = NoWrite /\ nonfinite = {} /\ written = 0
    /\ pc = "train_epoch"

\* One pass over the training partitions, or the end of the loop at max_epochs.
\* A non-finite training loss aborts the update and raises.
TrainEpoch ==
    /\ pc = "train_epoch"
    /\ \E tl \in {1, NaN} :
          IF epoch >= epochs
          THEN /\ pc' = "train_returned"
               /\ UNCHANGED <<epoch, model, nonfinite, err>>
          ELSE /\ nonfinite' = IF tl = NaN THEN nonfinite \cup {epoch + 1}
                                ELSE nonfinite
               /\ IF LossDiverged(tl)
                  THEN /\ err' = "DivergedTrainingError"
                       /\ pc' = "train_raised"
                       /\ UNCHANGED <<epoch, model>>
                  ELSE /\ epoch' = epoch + 1
                       /\ model' = model + 1
                       /\ pc' = "validate"
                       /\ UNCHANGED err
    /\ UNCHANGED <<epochs, patience, best_loss, stall, losses, track, tmp, written>>
    /\ UNCHANGED <<run, existed, train_calls, loaded, result, predict_returned,
                   acc_log, resumed_log, cm_plotted, recall_plotted,
                   killed_in_write>>
    /\ UNCHANGED <<nameVars, dataVars, loaderVars, diskVars>>

\* One pass over the validation partitions and the early-stopping step.
Validate ==
    /\ pc = "validate"
    /\ \E v \in LossValues \cup {NaN} :
          /\ nonfinite' = IF v = NaN THEN nonfinite \cup {epoch} ELSE nonfinite
          /\ IF LossDiverged(v)
             THEN /\ err' = "DivergedTrainingError"
                  /\ pc' = "train_raised"
                  /\ UNCHANGED <<best_loss, stall, losses>>
             ELSE /\ losses' = IF track THEN Append(losses, v) ELSE losses
                  /\ UNCHANGED err
                  /\ IF Improves(v, best_loss)
                     THEN /\ best_loss' = v
                          /\ stall' = 0
                          /\ pc' = "save"
                     ELSE /\ best_loss' = best_loss
                          /\ stall' = stall + 1
                          /\ pc' = AfterStall(stall + 1, patience)
    /\ UNCHANGED <<epochs, patience, epoch, track, tmp, written>>
    /\ UNCHANGED <<run, model, existed, train_calls, loaded, result,
                   predict_returned, acc_log, resumed_log, cm_plotted,
                   recall_plotted, killed_in_write>>
    /\ UNCHANGED <<nameVars, dataVars, loaderVars, diskVars>>

\* The checkpoint write begins: the current parameters are being written.
SaveStart ==
    /\ pc = "save"
    /\ tmp' = model
    /\ disk' = DiskWhileWriting(disk, model)
    /\ pc' = "saving"
    /\ UNCHANGED <<epochs, patience, epoch, best_loss, stall, losses, track,
                   nonfinite, written>>
    /\ UNCHANGED <<last_written>>
    /\ UNCHANGED <<nameVars, dataVars, loaderVars, runVars>>

\* The checkpoint write completes; only then does the loop go on.
SaveCommit ==
    /\ pc = "saving"
    /\ disk' = tmp
    /\ last_written' = tmp
    /\ written' = epoch
    /\ tmp' = NoWrite
    /\ pc' = "train_epoch"
    /\ UNCHANGED <<epochs, patience, epoch, best_loss, stall, losses, track,
                   nonfinite>>
    /\ UNCHANGED <<nameVars, dataVars, loaderVars, runVars>>

\* The checkpoint write fails: CheckpointIOError, the file as it was.
SaveFail ==
    /\ pc = "saving"
    /\ disk' = IF disk = Partial THEN Partial ELSE disk
    /\ err' = "CheckpointIOError"
    /\ tmp' = NoWrite
    /\ pc' = "train_raised"
    /\ UNCHANGED <<epochs, patience, epoch, best_loss, stall, losses, track,
                   nonfinite, written>>
    /\ UNCHANGED <<last_written>>
    /\ UNCHANGED <<run, model, existed, train_calls, loaded, result,
                   predict_returned, acc_log, resumed_log, cm_plotted,
                   recall_plotted, killed_in_write>>
    /\ UNCHANGED <<nameVars, dataVars, loaderVars>>

NextTrain == TrainEpoch \/ Validate \/ SaveStart \/ SaveCommit \/ SaveFail

SpecTrain == InitTrain /\ [][NextTrain]_vars

\* Lowest of the first k validation losses; +infinity for k = 0.
RECURSIVE MinPrefix(_, _)
MinPrefix(h, k) ==
    IF k = 0 THEN Inf
    ELSE IF MinPrefix(h, k - 1) = Inf \/ h[k] < MinPrefix(h, k - 1) THEN h[k]
    ELSE MinPrefix(h, k - 1)

\* Consecutive epochs, ending with epoch k, whose validation loss was not
\* strictly below the best before them.
RECURSIVE TrailingStall(_, _)
TrailingStall(h, k) ==
    IF k = 0 THEN 0
    ELSE IF MinPrefix(h, k - 1) = Inf \/ h[k] < MinPrefix(h, k - 1) THEN 0
    ELSE 1 + TrailingStall(h, k - 1)

\* The first epoch that reported the lowest validation loss.
FirstArgMin(h) ==
    CHOOSE i \in DOMAIN h :
        /\ h[i] = MinPrefix(h, Len(h))
        /\ \A j \in 1..(i - 1) : h[j] # h[i]

\* C2: when train returns after k epochs, k is the first epoch at which the
\* run of non-improving epochs reached patience, or k = max_epochs; no
\* earlier epoch had reached patience; and the checkpoint holds the
\* parameters of the epoch with the lowest validation loss, not the last.
C2_EarlyStopBestCheckpoint ==
    pc = "train_returned" =>
       /\ epoch = Len(losses)
       /\ epoch <= epochs
       /\ TrailingStall(losses, epoch) >= patience \/ epoch = epochs
       /\ \A j \in 0..(epoch - 1) : TrailingStall(losses, j) < patience
       /\ disk = FirstArgMin(losses)
       /\ losses[disk] = MinPrefix(losses, Len(losses))
       /\ model = epoch

C2_Witness ==
    /\ pc = "train_returned" /\ epochs = 5 /\ patience = 2
    /\ losses = <<100, 90, 95, 96>>
    /\ disk = 2 /\ model = 4

\* ---------------------------------------------------------------- predict
\* Orders the test loader's shuffle may draw: the index order and the one
\* that swaps nodes 2 and 3 (two of the TestNodes! it can draw).
TestOrders ==
    { Identity(TestNodes),
      [i \in 1..TestNodes |-> IF i = 2 THEN 3 ELSE IF i = 3 THEN 2 ELSE i] }

\* Attack-featured neighbours of v that the node-induced subgraph keeps.
KeptNeighbours(v, part) ==
    Cardinality({ u \in Range(part) : {u, v} \in TestEdges /\ TestX[u] = 1 })

\* The score an untrained model asks for is out of reach; a trained one
\* asks for one attack feature on the node or a kept neighbour.
Threshold(params) == IF params = 0 THEN 2 ELSE 1

\* forward over one subgraph and argmax, for node v.
PredictedLabel(params, v, part) ==
    IF TestX[v] + KeptNeighbours(v, part) >= Threshold(params) THEN 1 ELSE 0

\* confusion_matrix(y_true, y_pred) of predict's concatenated output.
ConfusionCounts(params, batches) ==
    [tp \in (0..1) \X (0..1) |->
        Cardinality({ <<i, k>> \in (DOMAIN batches) \X (1..TestNodes) :
            /\ k \in DOMAIN batches[i]
            /\ TestY[batches[i][k]] = tp[1]
            /\ PredictedLabel(params, batches[i][k], batches[i]) = tp[2] })]

\* accuracy_score
Accuracy(cm) ==
    <<cm[<<0, 0>>] + cm[<<1, 1>>],
      cm[<<0, 0>>] + cm[<<0, 1>>] + cm[<<1, 0>>] + cm[<<1, 1>>]>>

\* recall_score(average=None), class c
Recall(cm, c) == <<cm[<<c, c>>], cm[<<c, 0>>] + cm[<<c, 1>>]>>

\* balanced_accuracy_score: the mean of the per-class recalls
BalancedAccuracy(cm) ==
    <<Recall(cm, 0)[1] * Recall(cm, 1)[2] + Recall(cm, 1)[1] * Recall(cm, 0)[2],
      2 * Recall(cm, 0)[2] * Recall(cm, 1)[2]>>

\* ------------------------------------------------------ node_classification
\* Training whatever the disk holds.
ResumeBranchAlwaysTrain(exists) == "train"

\* Line 137: os.path.exists(model_trained_path) alone picks the branch.
ResumeBranch(exists) == IF exists THEN "load" ELSE "train"

\* Line 138: model.load_state_dict(torch.load(model_trained_path)).
LoadedParams(params, file) == file

\* Lines 141-155: an exception of train leaves node_classification.
AfterTrainRaised == "failed"

\* No global, import or local of main.py binds proto_type.
ProtoTypeDefined == FALSE

Init ==
    /\ NameIdle /\ DataIdle /\ LoaderIdle /\ TrainIdle /\ RunIdle
    /\ disk = Absent /\ last_written = Absent
    /\ pc = "datasets"

ResumeCheck ==
    /\ pc = "check"
    /\ existed' = IF disk # Absent THEN "yes" ELSE "no"
    /\ resumed_log' = [resumed_log EXCEPT ![run] = IF disk # Absent THEN "yes" ELSE "no"]
    /\ pc' = ResumeBranch(disk # Absent)
    /\ UNCHANGED <<run, model, train_calls, loaded, err, result,
                   predict_returned, acc_log, cm_plotted, recall_plotted,
                   killed_in_write>>
    /\ UNCHANGED <<nameVars, dataVars, loaderVars, trainVars, diskVars>>

LoadCheckpoint ==
    /\ pc = "load"
    /\ IF disk = Partial
       THEN /\ err' = "CheckpointIOError"
            /\ pc' = "failed"
            /\ UNCHANGED <<model, loaded>>
       ELSE /\ model' = LoadedParams(model, disk)
            /\ loaded' = TRUE
            /\ pc' = "predict"
            /\ UNCHANGED err
    /\ UNCHANGED <<run, existed, train_calls, result, predict_returned, acc_log,
                   resumed_log, cm_plotted, recall_plotted, killed_in_write>>
    /\ UNCHANGED <<nameVars, dataVars, loaderVars, trainVars, diskVars>>

\* Lines 141-155: train(..., epochs=1000, ..., patience=20).
TrainInvoke ==
    /\ pc = "train"
    /\ train_calls' = train_calls + 1
    /\ epochs' = EPOCHS
    /\ patience' = PATIENCE
    /\ epoch' = 0 /\ best_loss' = Inf /\ stall' = 0
    /\ pc' = "train_epoch"
    /\ UNCHANGED <<losses, track, tmp, nonfinite, written>>
    /\ UNCHANGED <<run, model, existed, loaded, err, result, predict_returned,
                   acc_log, resumed_log, cm_plotted, recall_plotted,
                   killed_in_write>>
    /\ UNCHANGED <<nameVars, dataVars, loaderVars, diskVars>>

\* train's own loop state ends with the call.
TrainFrameDropped ==
    /\ epochs' = 0 /\ patience' = 0 /\ epoch' = 0 /\ best_loss' = Inf
    /\ stall' = 0
    /\ UNCHANGED <<losses, track, tmp, nonfinite, written>>

\* Line 156: train returned.
TrainReturned ==
    /\ pc = "train_returned"
    /\ pc' = "predict"
    /\ TrainFrameDropped
    /\ UNCHANGED <<nameVars, dataVars, loaderVars, diskVars, runVars>>

TrainRaised ==
    /\ pc = "train_raised"
    /\ pc' = AfterTrainRaised
    /\ TrainFrameDropped
    /\ UNCHANGED <<nameVars, dataVars, loaderVars, diskVars, runVars>>

\* Lines 159-163: predict over one traversal of the shuffled test loader.
Predict ==
    /\ pc = "predict"
    /\ \E order \in TestOrders :
          result' = ConfusionCounts(model, Batches(order, NUM_PARTS))
    /\ predict_returned' = TRUE
    /\ pc' = "log"
    /\ UNCHANGED <<run, model, existed, train_calls, loaded, err, acc_log,
                   resumed_log, cm_plotted, recall_plotted, killed_in_write>>
    /\ UNCHANGED <<nameVars, dataVars, loaderVars, trainVars, diskVars>>

\* Lines 165-167: accuracy and balanced accuracy are logged.
LogMetrics ==
    /\ pc = "log"
    /\ acc_log' = [acc_log EXCEPT
                     ![run] = <<Accuracy(result), BalancedAccuracy(result)>>]
    /\ pc' = "plot"
    /\ UNCHANGED <<run, model, existed, train_calls, loaded, err, result,
                   predict_returned, resumed_log, cm_plotted, recall_plotted,
                   killed_in_write>>
    /\ UNCHANGED <<nameVars, dataVars, loaderVars, trainVars, diskVars>>

\* Lines 170-180: image_name reads proto_type, then the two plots.
PlotResults ==
    /\ pc = "plot"
    /\ IF ProtoTypeDefined
       THEN /\ cm_plotted' = TRUE
            /\ recall_plotted' = TRUE
            /\ pc' = "done"
            /\ UNCHANGED err
       ELSE /\ err' = "NameError"
            /\ pc' = "failed"
            /\ UNCHANGED <<cm_plotted, recall_plotted>>
    /\ UNCHANGED <<run, model, existed, train_calls, loaded, result,
                   predict_returned, acc_log, resumed_log, killed_in_write>>
    /\ UNCHANGED <<nameVars, dataVars, loaderVars, trainVars, diskVars>>

Terminal == {"done", "failed", "killed"}

\* What a process holds in memory, as it is before the pipeline starts.
MemoryCleared ==
    /\ model' = 0 /\ existed' = None /\ train_calls' = 0 /\ loaded' = FALSE
    /\ err' = None /\ result' = NoResult /\ predict_returned' = FALSE
    /\ cm_plotted' = FALSE /\ recall_plotted' = FALSE
    /\ model_name' = << >> /\ model_trained_path' = << >>
    /\ train_dataset' = NoDataset /\ val_dataset' = NoDataset /\ test_dataset' = NoDataset
    /\ class_weights' = NoWeights /\ class_weights_val' = NoWeights
    /\ epochs' = 0 /\ patience' = 0 /\ epoch' = 0 /\ best_loss' = Inf
    /\ stall' = 0 /\ tmp' = NoWrite /\ nonfinite' = {} /\ written' = 0

\* The process is killed, wherever it is: its memory is gone, the disk stays.
Kill ==
    /\ pc \notin Terminal
    /\ killed_in_write' = (killed_in_write \/ pc = "saving")
    /\ MemoryCleared
    /\ run' = run
    /\ pc' = "killed"
    /\ UNCHANGED <<n_neigh, augmentation, hid, num_convs, model_path>>
    /\ UNCHANGED <<raw_train, raw_val, aug_default, losses, track>>
    /\ UNCHANGED <<acc_log, resumed_log>>
    /\ UNCHANGED <<loaderVars, diskVars>>

\* The pipeline is started again with the same hyperparameters and disk.
NextRun ==
    /\ pc \in Terminal
    /\ run < MaxRuns
    /\ run' = run + 1
    /\ MemoryCleared
    /\ pc' = "datasets"
    /\ UNCHANGED <<n_neigh, augmentation, hid, num_convs, model_path>>
    /\ UNCHANGED <<raw_train, raw_val, aug_default, losses, track>>
    /\ UNCHANGED <<acc_log, resumed_log, killed_in_write>>
    /\ UNCHANGED <<loaderVars, diskVars>>

Next ==
    \/ CreateDatasets \/ DefineLosses \/ ComputeModelName \/ ResumeCheck
    \/ LoadCheckpoint \/ TrainInvoke \/ TrainEpoch \/ Validate \/ SaveStart
    \/ SaveCommit \/ SaveFail \/ TrainReturned \/ TrainRaised \/ Predict
    \/ LogMetrics \/ PlotResults \/ Kill \/ NextRun

Spec == Init /\ [][Next]_vars

\* ------------------------------------------------- datasets and losses only
InitData ==
    /\ n_neigh \in {DEFAULT_NEIGH, DEFAULT_NEIGH + 1}
    /\ augmentation \in BOOLEAN
    /\ hid = DEFAULT_HID /\ num_convs = DEFAULT_N_CONVS
    /\ model_path = <<"m">>
    /\ model_name = << >> /\ model_trained_path = << >>
    /\ raw_train \in LabelVectors /\ raw_val \in LabelVectors
    /\ aug_default \in BOOLEAN
    /\ train_dataset = NoDataset /\ val_dataset = NoDataset /\ test_dataset = NoDataset
    /\ class_weights = NoWeights /\ class_weights_val = NoWeights
    /\ LoaderIdle /\ TrainIdle /\ RunIdle
    /\ disk = Absent /\ last_written = Absent
    /\ pc = "datasets"

NextData ==
    \/ CreateDatasets \/ DefineLosses \/ ComputeModelName \/ ResumeCheck
    \/ TrainInvoke

SpecData == InitData /\ [][NextData]_vars

\* ------------------------------------------------------------------ claims
AfterCheck == {"predict", "log", "plot", "done"}

\* C1: train is invoked at most once in a run; when the checkpoint file
\* existed at the resume check, train is never invoked and, from predict on,
\* the parameters are the file's; when it did not exist, nothing is loaded
\* and train has been invoked exactly once by the time predict is reached.
C1_ResumeOrTrainOnce ==
    /\ train_calls <= 1
    /\ existed = None => train_calls = 0 /\ ~loaded
    /\ existed = "yes" =>
          /\ train_calls = 0
          /\ pc \in AfterCheck \/ predict_returned => loaded /\ model = disk
    /\ existed = "no" =>
          /\ ~loaded
          /\ pc \in AfterCheck \/ predict_returned => train_calls = 1
    /\ pc = "load" => existed = "yes"
    /\ pc \in {"train", "train_epoch", "validate", "save", "saving"} =>
          existed = "no"

C1_Witness ==
    /\ run = 2 /\ resumed_log[1] = "no" /\ existed = "yes" /\ pc = "log"
    /\ loaded /\ train_calls = 0 /\ model = disk /\ disk = 2

\* C5: once the datasets are built, only the train graph may be augmented,
\* and only when the run's flag is set; the validation and test graphs are
\* not augmented and equal the ones a run with the flag off builds.
C5_OnlyTrainAugmented ==
    pc # "datasets" =>
       /\ train_dataset.augmented => augmentation
       /\ train_dataset.y # raw_train => augmentation
       /\ ~val_dataset.augmented /\ ~test_dataset.augmented
       /\ val_dataset.y = raw_val /\ test_dataset.y = TestY
       /\ val_dataset =
             DatasetBuild(ValDatasetArgs(n_neigh, FALSE, aug_default), raw_val, 0)
       /\ test_dataset =
             DatasetBuild(TestDatasetArgs(n_neigh, FALSE, aug_default), TestY, 0)

C5_Witness ==
    /\ pc = "losses" /\ augmentation /\ aug_default
    /\ train_dataset.augmented
    /\ Len(train_dataset.y) = Len(raw_train) + 2
    /\ MinorityGap(raw_val) > 0 /\ val_dataset.y = raw_val

\* C6: any two runs that both found the checkpoint at the resume check and
\* logged their metrics logged the same accuracy and balanced accuracy.
C6_ResumeIdempotentMetrics ==
    \A r1, r2 \in 1..MaxRuns :
       (/\ resumed_log[r1] = "yes" /\ resumed_log[r2] = "yes"
        /\ Len(acc_log[r1]) > 0 /\ Len(acc_log[r2]) > 0)
       => /\ FracEq(acc_log[r1][1], acc_log[r2][1])
          /\ FracEq(acc_log[r1][2], acc_log[r2][2])

C9_InverseFrequencyWeights ==
    pc \notin {"datasets", "losses"} =>
       /\ \A c1, c2 \in Range(train_dataset.y) :
             Count(train_dataset.y, c1) < Count(train_dataset.y, c2) =>
                FracGT(LossWeight(class_weights, c1), LossWeight(class_weights, c2))
       /\ \A c1, c2 \in Range(val_dataset.y) :
             Count(val_dataset.y, c1) < Count(val_dataset.y, c2) =>
                FracGT(LossWeight(class_weights_val, c1),
                       LossWeight(class_weights_val, c2))

C9_Witness ==
    /\ pc = "train_epoch" /\ train_calls = 1 /\ ~augmentation
    /\ raw_train = ScenarioLabels /\ raw_val = <<1, 1, 0>>
    /\ class_weights = << <<10, 18>>, <<10, 2>> >>
    /\ FracGT(LossWeight(class_weights, 1), LossWeight(class_weights, 0))
    /\ FracGT(LossWeight(class_weights_val, 0), LossWeight(class_weights_val, 1))

\* C10: a run that ended after predict returned has handed the confusion
\* matrix to plot_confusion_matrix and the recalls to plot_recall.
C10_ResultsHandedOff ==
    (predict_returned /\ pc \in {"done", "failed"}) =>
       (cm_plotted /\ recall_plotted)

====
